---- MODULE Spec2Model ----
(***************************************************************************)
(* A model of luhcli's argument parser (src/src/lib.rs): the Arg builder,  *)
(* Command::get_active_args and Command::parse.                            *)
(*                                                                         *)
(* Strings are sequences of one-character strings, so that starts_with,    *)
(* trim_start_matches, split_once and chars().nth(1) are computed on the   *)
(* characters as the code computes them.  An Option<T> is a sequence of    *)
(* length 0 (None) or 1 (Some).  A HashMap is a function whose domain is   *)
(* its key set.                                                            *)
(***************************************************************************)
EXTENDS Naturals, Sequences, FiniteSets, TLC

VARIABLES
    cmd,             \* which Command (its args: Vec<Arg>) parse is called on
    args,            \* the token list handed to parse
    pc,              \* position inside parse
    i,               \* the main scan's cursor (0-based, as in the code)
    values,          \* HashMap<String, String>
    flags,           \* HashMap<String, bool>
    positional,      \* Vec<String>
    variadic,        \* Vec<String>
    seen_args,       \* Vec<String>
    positional_raw,  \* Vec<String>
    active_args,     \* Vec<Arg>
    result           \* what parse returned: Ok or the error

vars == <<cmd, args, pc, i, values, flags, positional, variadic, seen_args,
          positional_raw, active_args, result>>

\* The longest token list handed to parse.
MaxTokens == 4

(***************************************************************************)
(* str, Vec and HashMap operations that parse uses                         *)
(***************************************************************************)
StartsWith(s, p) == Len(s) >= Len(p) /\ SubSeq(s, 1, Len(p)) = p

RECURSIVE TrimStartMatches(_, _)
TrimStartMatches(s, p) ==
    IF Len(p) > 0 /\ StartsWith(s, p)
    THEN TrimStartMatches(SubSeq(s, Len(p) + 1, Len(s)), p)
    ELSE s

\* Some((before, after)) around the first c of s, None when s holds no c.
SplitOnce(s, c) ==
    IF \E j \in 1..Len(s) : s[j] = c
    THEN LET j == CHOOSE j \in 1..Len(s) : s[j] = c /\ \A m \in 1..(j - 1) : s[m] # c
         IN  << <<SubSeq(s, 1, j - 1), SubSeq(s, j + 1, Len(s))>> >>
    ELSE <<>>

Contains(v, x) == \E j \in 1..Len(v) : v[j] = x

\* A map whose insert keeps the value a key already has: entry(k).or_insert(v).
MapInsertKeepsFirst(m, k, v) ==
    [x \in (DOMAIN m) \cup {k} |-> IF x \in DOMAIN m THEN m[x] ELSE v]

\* HashMap::insert: the new value replaces an old one under the same key.
MapInsert(m, k, v) == [x \in (DOMAIN m) \cup {k} |-> IF x = k THEN v ELSE m[x]]

EmptyMap == [x \in {} |-> <<>>]

(***************************************************************************)
(* Arg and its builder                                                     *)
(***************************************************************************)
ArgNew(name) ==
    [name |-> name, short |-> <<>>, long |-> <<name>>, required |-> FALSE,
     arg_type |-> "Flag", index |-> 0, depends_on |-> <<>>, conflicts_with |-> <<>>,
     default_value |-> <<>>, possible_values |-> <<>>, children |-> <<>>]

ArgPositional(name, index) ==
    [name |-> name, short |-> <<>>, long |-> <<>>, required |-> TRUE,
     arg_type |-> "Positional", index |-> index, depends_on |-> <<>>,
     conflicts_with |-> <<>>, default_value |-> <<>>, possible_values |-> <<>>,
     children |-> <<>>]

ArgVariadic(name) ==
    [name |-> name, short |-> <<>>, long |-> <<>>, required |-> FALSE,
     arg_type |-> "Variadic", index |-> 0, depends_on |-> <<>>, conflicts_with |-> <<>>,
     default_value |-> <<>>, possible_values |-> <<>>, children |-> <<>>]

Short(a, c) == [a EXCEPT !.short = <<c>>]
Long(a, s) == [a EXCEPT !.long = <<s>>]
Required(a, r) == [a EXCEPT !.required = r]
TakesValue(a) == [a EXCEPT !.arg_type = "Option"]
DependsOn(a, n) == [a EXCEPT !.depends_on = Append(@, n)]
ConflictsWith(a, n) == [a EXCEPT !.conflicts_with = Append(@, n)]
DefaultValue(a, v) == [a EXCEPT !.default_value = <<v>>]
PossibleValues(a, vs) == [a EXCEPT !.possible_values = vs]
When(a, value, chain_args) ==
    [a EXCEPT !.children = Append(@, [when_value |-> value, args |-> chain_args])]

(***************************************************************************)
(* The strings of the commands and token lists below                       *)
(***************************************************************************)
S_output == <<"o", "u", "t", "p", "u", "t">>
S_verbose == <<"v", "e", "r", "b", "o", "s", "e">>
S_action == <<"a", "c", "t", "i", "o", "n">>
S_key == <<"k", "e", "y">>
S_value == <<"v", "a", "l", "u", "e">>
S_get == <<"g", "e", "t">>
S_set == <<"s", "e", "t">>
S_GET == <<"G", "E", "T">>
S_name == <<"n", "a", "m", "e">>
S_force == <<"f", "o", "r", "c", "e">>
S_dry == <<"d", "r", "y">>
S_plan == <<"p", "l", "a", "n">>
S_level == <<"l", "e", "v", "e", "l">>
S_yes == <<"y", "e", "s">>
S_low == <<"l", "o", "w">>
S_high == <<"h", "i", "g", "h">>
S_mid == <<"m", "i", "d">>
S_src == <<"s", "r", "c">>
S_dst == <<"d", "s", "t">>
S_rest == <<"r", "e", "s", "t">>
S_mode == <<"m", "o", "d", "e">>
S_advanced == <<"a", "d", "v", "a", "n", "c", "e", "d">>
S_config == <<"c", "o", "n", "f", "i", "g">>
S_a == <<"a">>
S_b == <<"b">>
S_p == <<"p">>
S_f == <<"f">>
S_out_txt == <<"o", "u", "t", ".", "t", "x", "t">>
S_empty == <<>>
Dash == <<"-">>
DashDash == <<"-", "-">>
Eq == <<"=">>

(***************************************************************************)
(* The commands parse is called on (Command::args), and the tokens tried   *)
(* against each                                                            *)
(***************************************************************************)
\* lib.rs 56-63 and 72-80: a flag, and an option with a default value
OutputArgs ==
    << Short(Long(ArgNew(S_verbose), S_verbose), "v"),
       DefaultValue(Long(TakesValue(Short(ArgNew(S_output), "o")), S_output), S_out_txt) >>

\* lib.rs 40-46 and 472-479: an action that decides which positionals follow
ConfigArgs ==
    << When(When(PossibleValues(ArgPositional(S_action, 0), <<S_get, S_set>>),
                 S_get, <<ArgPositional(S_key, 0)>>),
            S_set, <<ArgPositional(S_key, 0), ArgPositional(S_value, 1)>>) >>

\* depends_on and conflicts_with, the conflict declared by both sides
DepsArgs ==
    << ConflictsWith(ArgNew(S_force), S_dry),
       ConflictsWith(DependsOn(ArgNew(S_dry), S_plan), S_force),
       TakesValue(ArgNew(S_plan)) >>

\* the conflict declared by one side only, which comes first
DepsFirstArgs ==
    << ConflictsWith(DependsOn(ArgNew(S_dry), S_plan), S_force),
       ArgNew(S_force),
       TakesValue(ArgNew(S_plan)) >>

\* the conflict declared by one side only, which comes last
DepsLastArgs ==
    << ArgNew(S_force),
       ConflictsWith(DependsOn(ArgNew(S_dry), S_plan), S_force),
       TakesValue(ArgNew(S_plan)) >>

\* required arguments, one with a default and a set of possible values
RunArgs ==
    << PossibleValues(DefaultValue(Required(TakesValue(ArgNew(S_level)), TRUE), S_low),
                      <<S_low, S_high>>),
       Required(ArgNew(S_yes), TRUE) >>

\* positionals, one with a default, a variadic tail, and a flag that depends on
\* the one and conflicts with the other
CopyArgs ==
    << ArgPositional(S_src, 0),
       DefaultValue(ArgPositional(S_dst, 1), S_b),
       ArgVariadic(S_rest),
       ConflictsWith(DependsOn(ArgNew(S_yes), S_dst), S_rest) >>

\* lib.rs 82-90: conditional sub-arguments on an option
ModeArgs ==
    << When(TakesValue(ArgNew(S_mode)), S_advanced, <<TakesValue(ArgNew(S_config))>>) >>

\* an action that decides which positionals follow, beside an option
FetchArgs ==
    << When(When(PossibleValues(ArgPositional(S_action, 0), <<S_get, S_set>>),
                 S_get, <<ArgPositional(S_key, 0)>>),
            S_set, <<ArgPositional(S_name, 0), ArgPositional(S_value, 1)>>),
       TakesValue(Short(ArgNew(S_output), "o")) >>

\* positionals whose indices leave a gap, and a variadic tail
GapArgs ==
    << ArgPositional(S_src, 0),
       ArgPositional(S_dst, 2),
       ArgVariadic(S_rest) >>

Commands == {"output", "config", "deps", "depsfirst", "depslast", "run", "copy", "mode",
             "fetch", "gap"}

\* Command::args
CommandArgs(c) ==
    CASE c = "output"  -> OutputArgs
      [] c = "config"  -> ConfigArgs
      [] c = "deps"    -> DepsArgs
      [] c = "depsfirst" -> DepsFirstArgs
      [] c = "depslast" -> DepsLastArgs
      [] c = "run"     -> RunArgs
      [] c = "copy"    -> CopyArgs
      [] c = "mode"    -> ModeArgs
      [] c = "fetch"   -> FetchArgs
      [] c = "gap"     -> GapArgs

DepsTokens == {DashDash \o S_force, DashDash \o S_dry, DashDash \o S_plan,
               DashDash \o S_plan \o Eq \o S_p, S_p}

\* The tokens tried against each command.
Tokens(c) ==
    CASE c = "output"  -> {DashDash \o S_output \o Eq \o S_a, DashDash \o S_output,
                           Dash \o <<"o">>, S_b, DashDash \o S_verbose,
                           DashDash \o S_verbose \o Eq, Dash \o <<"v">>}
      [] c = "config"  -> {S_get, S_set, S_GET, S_name, S_empty, Dash}
      [] c = "deps"    -> DepsTokens
      [] c = "depsfirst" -> DepsTokens
      [] c = "depslast" -> DepsTokens
      [] c = "run"     -> {DashDash \o S_level, DashDash \o S_level \o Eq \o S_mid,
                           S_low, DashDash \o S_yes, DashDash \o S_yes \o Eq}
      [] c = "copy"    -> {S_a, S_b, S_p, Dash, DashDash \o S_yes}
      [] c = "mode"    -> {DashDash \o S_mode, S_advanced, DashDash \o S_config, S_f,
                           DashDash \o S_mode \o Eq \o S_advanced}
      [] c = "fetch"   -> {DashDash \o S_output, DashDash \o S_output \o Eq \o S_get,
                           Dash \o <<"o">>, S_get, S_set, S_a}
      [] c = "gap"     -> {S_a, S_b, S_p}

SeqsUpTo(S, n) == UNION {[1..k -> S] : k \in 0..n}

(***************************************************************************)
(* Command::get_active_args                                                *)
(***************************************************************************)
\* A nested index that forgets the slot the parent takes.
ChildIndexNoParentSlot(index, child_idx) == index + child_idx

\* The index a nested positional is parsed at, under a parent at `index`.
ChildIndex(index, child_idx) == index + 1 + child_idx

\* child.clone(), its positional index made relative to the parent's
ChildClone(child, index) ==
    IF child.arg_type = "Positional"
    THEN [child EXCEPT !.index = ChildIndex(index, child.index)]
    ELSE child

UpperCase == <<"A", "B", "C", "D", "E", "F", "G", "H", "I", "J", "K", "L", "M",
               "N", "O", "P", "Q", "R", "S", "T", "U", "V", "W", "X", "Y", "Z">>
LowerCase == <<"a", "b", "c", "d", "e", "f", "g", "h", "i", "j", "k", "l", "m",
               "n", "o", "p", "q", "r", "s", "t", "u", "v", "w", "x", "y", "z">>
ToAsciiLowercase(s) ==
    [n \in 1..Len(s) |->
        IF \E u \in 1..Len(UpperCase) : UpperCase[u] = s[n]
        THEN LowerCase[CHOOSE u \in 1..Len(UpperCase) : UpperCase[u] = s[n]]
        ELSE s[n]]

\* A trigger comparison that ignores case: eq_ignore_ascii_case.
ChainMatchesIgnoreCase(when_value, value) ==
    ToAsciiLowercase(when_value) = ToAsciiLowercase(value)

\* when_value == value, on the strings as they are
ChainMatches(when_value, value) == when_value = value

\* for chain in &arg.children, from the k-th on: what is pushed for `value`
RECURSIVE ChainChildren(_, _, _)
ChainChildren(arg, value, k) ==
    IF k > Len(arg.children) THEN <<>>
    ELSE (IF ChainMatches(arg.children[k].when_value, value)
          THEN [n \in 1..Len(arg.children[k].args) |->
                    ChildClone(arg.children[k].args[n], arg.index)]
          ELSE <<>>)
         \o ChainChildren(arg, value, k + 1)

\* for arg in &self.args, from the j-th on: what is pushed
RECURSIVE ActiveChildren(_, _, _)
ActiveChildren(base, parsed_positionals, j) ==
    IF j > Len(base) THEN <<>>
    ELSE (IF base[j].arg_type = "Positional" /\ base[j].index < Len(parsed_positionals)
          THEN ChainChildren(base[j], parsed_positionals[base[j].index + 1], 1)
          ELSE <<>>)
         \o ActiveChildren(base, parsed_positionals, j + 1)

GetActiveArgs(base, parsed_positionals) ==
    base \o ActiveChildren(base, parsed_positionals, 1)

(***************************************************************************)
(* Command::parse                                                          *)
(***************************************************************************)
Ok == [kind |-> "Ok", a |-> <<>>, b |-> <<>>]
Running == [kind |-> "Running", a |-> <<>>, b |-> <<>>]
Err(kind, a, b) == [kind |-> kind, a |-> a, b |-> b]

\* the pre-scan of lines 580-589: the tokens that do not start with '-'
RECURSIVE PreScan(_, _)
PreScan(tokens, temp_i) ==
    IF temp_i >= Len(tokens) THEN <<>>
    ELSE (IF ~StartsWith(tokens[temp_i + 1], Dash) THEN <<tokens[temp_i + 1]>> ELSE <<>>)
         \o PreScan(tokens, temp_i + 1)

\* active_args.iter().find(|a| a.long.as_deref() == Some(k)): Some(arg) or None
FindLong(active, k) ==
    IF \E j \in 1..Len(active) : active[j].long = <<k>>
    THEN <<active[CHOOSE j \in 1..Len(active) :
                /\ active[j].long = <<k>>
                /\ \A m \in 1..(j - 1) : active[m].long # <<k>>]>>
    ELSE <<>>

\* active_args.iter().find(|a| a.short == Some(c))
FindShort(active, c) ==
    IF \E j \in 1..Len(active) : active[j].short = <<c>>
    THEN <<active[CHOOSE j \in 1..Len(active) :
                /\ active[j].short = <<c>>
                /\ \A m \in 1..(j - 1) : active[m].short # <<c>>]>>
    ELSE <<>>

Init ==
    /\ cmd \in Commands
    /\ args \in SeqsUpTo(Tokens(cmd), MaxTokens)
    /\ pc = "prescan"
    /\ i = 0
    /\ values = EmptyMap
    /\ flags = EmptyMap
    /\ positional = <<>>
    /\ variadic = <<>>
    /\ seen_args = <<>>
    /\ positional_raw = <<>>
    /\ active_args = <<>>
    /\ result = Running

\* lines 580-589
PreScanTokens ==
    /\ pc = "prescan"
    /\ positional_raw' = PreScan(args, 0)
    /\ pc' = "resolve"
    /\ UNCHANGED <<cmd, args, i, values, flags, positional, variadic, seen_args,
                   active_args, result>>

\* lines 591-593
ResolveActiveArgs ==
    /\ pc = "resolve"
    /\ active_args' = GetActiveArgs(CommandArgs(cmd), positional_raw)
    /\ positional_raw' = <<>>
    /\ pc' = "scan"
    /\ UNCHANGED <<cmd, args, i, values, flags, positional, variadic, seen_args, result>>

\* The first of the indices in S, 0 when there is none: where a loop or
\* Iterator::find stops.
FirstOf(S) == IF S = {} THEN 0 ELSE CHOOSE j \in S : \A m \in S : j <= m

\* The main scan keeps its locals in a record; err is None or Some(error).
ScanState == [i |-> i, values |-> values, flags |-> flags, seen_args |-> seen_args,
              positional_raw |-> positional_raw, err |-> <<>>]

\* lines 603-604: `--k=v` on the spec found for k, whatever its kind
InlineAssign(st, arg_def, v) ==
    [st EXCEPT !.values = MapInsert(@, arg_def.name, v),
               !.seen_args = Append(@, arg_def.name)]

\* An Option that takes the next token only when it does not look like an option.
MatchArgTypeNoDashValue(st, tokens, arg_def, spelled) ==
    CASE arg_def.arg_type = "Option" ->
            IF st.i + 1 < Len(tokens) /\ ~StartsWith(tokens[st.i + 2], Dash)
            THEN [st EXCEPT !.i = @ + 1,
                            !.values = MapInsert(@, arg_def.name, tokens[st.i + 2]),
                            !.seen_args = Append(@, arg_def.name)]
            ELSE [st EXCEPT !.err = <<Err("MissingOptionValue", spelled, <<>>)>>]
      [] arg_def.arg_type = "Flag" ->
            [st EXCEPT !.flags = MapInsert(@, arg_def.name, TRUE),
                       !.seen_args = Append(@, arg_def.name)]
      [] OTHER -> [st EXCEPT !.err = <<Err("InvalidArgumentType", spelled, <<>>)>>]

\* lines 609-624 and 632-647: `--key` or `-c` on the spec found for it;
\* spelled is the option as the error message spells it
MatchArgType(st, tokens, arg_def, spelled) ==
    CASE arg_def.arg_type = "Option" ->
            IF st.i + 1 < Len(tokens)
            THEN [st EXCEPT !.i = @ + 1,
                            !.values = MapInsert(@, arg_def.name, tokens[st.i + 2]),
                            !.seen_args = Append(@, arg_def.name)]
            ELSE [st EXCEPT !.err = <<Err("MissingOptionValue", spelled, <<>>)>>]
      [] arg_def.arg_type = "Flag" ->
            [st EXCEPT !.flags = MapInsert(@, arg_def.name, TRUE),
                       !.seen_args = Append(@, arg_def.name)]
      [] OTHER -> [st EXCEPT !.err = <<Err("InvalidArgumentType", spelled, <<>>)>>]

\* lines 598-627: a token that starts with "--"
ScanLong(st, tokens, active, arg) ==
    LET key == TrimStartMatches(arg, DashDash)
        kv  == SplitOnce(key, "=")
    IN  IF kv # <<>>
        THEN LET arg_def == FindLong(active, kv[1][1])
             IN  IF arg_def # <<>>
                 THEN InlineAssign(st, arg_def[1], kv[1][2])
                 ELSE [st EXCEPT !.err = <<Err("UnknownOption", DashDash \o kv[1][1], <<>>)>>]
        ELSE LET arg_def == FindLong(active, key)
             IN  IF arg_def # <<>>
                 THEN MatchArgType(st, tokens, arg_def[1], DashDash \o key)
                 ELSE [st EXCEPT !.err = <<Err("UnknownOption", DashDash \o key, <<>>)>>]

\* lines 628-650: a token that starts with '-' and is longer than one character
ScanShort(st, tokens, active, arg) ==
    LET c == arg[2]
        arg_def == FindShort(active, c)
    IN  IF arg_def # <<>>
        THEN MatchArgType(st, tokens, arg_def[1], Dash \o <<c>>)
        ELSE [st EXCEPT !.err = <<Err("UnknownOption", Dash \o <<c>>, <<>>)>>]

\* An iteration that leaves the cursor where it is after a positional token.
ScanStepNoAdvance(st, tokens, active) ==
    LET arg == tokens[st.i + 1]
    IN  IF StartsWith(arg, DashDash)
        THEN LET after == ScanLong(st, tokens, active, arg)
             IN  IF after.err # <<>> THEN after ELSE [after EXCEPT !.i = @ + 1]
        ELSE IF StartsWith(arg, Dash) /\ Len(arg) > 1
             THEN LET after == ScanShort(st, tokens, active, arg)
                  IN  IF after.err # <<>> THEN after ELSE [after EXCEPT !.i = @ + 1]
             ELSE [st EXCEPT !.positional_raw = Append(@, arg)]

\* lines 596-655: one iteration of the main scan
ScanStep(st, tokens, active) ==
    LET arg == tokens[st.i + 1]
        after ==
            IF StartsWith(arg, DashDash) THEN ScanLong(st, tokens, active, arg)
            ELSE IF StartsWith(arg, Dash) /\ Len(arg) > 1
                 THEN ScanShort(st, tokens, active, arg)
                 ELSE [st EXCEPT !.positional_raw = Append(@, arg)]
    IN  IF after.err # <<>> THEN after ELSE [after EXCEPT !.i = @ + 1]

\* lines 595-656: one turn of `while i < args.len()`
ScanToken ==
    /\ pc = "scan"
    /\ i < Len(args)
    /\ LET st == ScanStep(ScanState, args, active_args)
       IN  IF st.err # <<>>
           THEN /\ result' = st.err[1]
                /\ pc' = "done"
                /\ UNCHANGED <<i, values, flags, seen_args, positional_raw>>
           ELSE /\ i' = st.i
                /\ values' = st.values
                /\ flags' = st.flags
                /\ seen_args' = st.seen_args
                /\ positional_raw' = st.positional_raw
                /\ UNCHANGED <<pc, result>>
    /\ UNCHANGED <<cmd, args, positional, variadic, active_args>>

\* lines 658-660
PositionalDefs(active) == SelectSeq(active, LAMBDA a : a.arg_type = "Positional")

\* lines 662-663
VariadicDef(active) ==
    LET j == FirstOf({m \in 1..Len(active) : active[m].arg_type = "Variadic"})
    IN  IF j = 0 THEN <<>> ELSE <<active[j]>>

\* lines 665-672: sort_by_key on the index, which keeps equal keys in their order
RECURSIVE SortByIndex(_, _, _)
SortByIndex(defs, k, sorted) ==
    IF k > Len(defs) THEN sorted
    ELSE LET n == Cardinality({m \in 1..Len(sorted) : sorted[m].index <= defs[k].index})
         IN  SortByIndex(defs, k + 1,
                         SubSeq(sorted, 1, n) \o <<defs[k]>> \o SubSeq(sorted, n + 1, Len(sorted)))

PositionalSorted(active) == SortByIndex(PositionalDefs(active), 1, <<>>)

\* lines 674-699: the loop over positional_sorted, from its k-th element
RECURSIVE AssignPositional(_, _, _, _)
AssignPositional(sorted, raw, k, st) ==
    IF k > Len(sorted) \/ st.err # <<>> THEN st
    ELSE LET arg_def == sorted[k] IN
         IF arg_def.index < Len(raw)
         THEN LET value == raw[arg_def.index + 1] IN
              IF arg_def.possible_values # <<>> /\ ~Contains(arg_def.possible_values, value)
              THEN [st EXCEPT !.err = <<Err("InvalidValue", value, arg_def.name)>>]
              ELSE AssignPositional(sorted, raw, k + 1,
                       [st EXCEPT !.positional = Append(@, value),
                                  !.values = MapInsert(@, arg_def.name, value),
                                  !.seen_args = Append(@, arg_def.name)])
         ELSE IF arg_def.required
              THEN IF arg_def.default_value # <<>>
                   THEN AssignPositional(sorted, raw, k + 1,
                            [st EXCEPT !.positional = Append(@, arg_def.default_value[1]),
                                       !.values = MapInsert(@, arg_def.name,
                                                            arg_def.default_value[1])])
                   ELSE [st EXCEPT !.err = <<Err("MissingRequiredPositional",
                                                 arg_def.name, <<>>)>>]
              ELSE AssignPositional(sorted, raw, k + 1, st)

\* lines 658-699, entered when the scan's `i < args.len()` fails
AssignPositionals ==
    /\ pc = "scan"
    /\ i >= Len(args)
    /\ LET st == AssignPositional(PositionalSorted(active_args), positional_raw, 1,
                     [positional |-> positional, values |-> values,
                      seen_args |-> seen_args, err |-> <<>>])
       IN  IF st.err # <<>>
           THEN /\ result' = st.err[1]
                /\ pc' = "done"
                /\ UNCHANGED <<positional, values, seen_args>>
           ELSE /\ positional' = st.positional
                /\ values' = st.values
                /\ seen_args' = st.seen_args
                /\ pc' = "variadic"
                /\ UNCHANGED result
    /\ UNCHANGED <<cmd, args, i, flags, variadic, positional_raw, active_args>>

\* The slice without its start: every positional token is left in the tail.
VariadicTailWhole(raw, start_index) == raw

\* lines 702-703: positional_raw.get(start_index..).unwrap_or(&[])
VariadicTail(raw, start_index) ==
    IF start_index <= Len(raw) THEN SubSeq(raw, start_index + 1, Len(raw)) ELSE <<>>

\* lines 701-708
AssignVariadic ==
    /\ pc = "variadic"
    /\ LET variadic_def == VariadicDef(active_args)
           tail == VariadicTail(positional_raw, Len(PositionalSorted(active_args)))
       IN  IF variadic_def # <<>>
           THEN /\ variadic' = tail
                /\ seen_args' = IF tail # <<>>
                                THEN Append(seen_args, variadic_def[1].name)
                                ELSE seen_args
           ELSE UNCHANGED <<variadic, seen_args>>
    /\ pc' = "relations"
    /\ UNCHANGED <<cmd, args, i, values, flags, positional, positional_raw, active_args,
                   result>>

\* The checks of one active spec without the loop over depends_on.
RelationErrorNoDepends(arg_def, seen) ==
    IF Contains(seen, arg_def.name)
    THEN LET c == FirstOf({n \in 1..Len(arg_def.conflicts_with) :
                               Contains(seen, arg_def.conflicts_with[n])})
         IN  IF c # 0
             THEN <<Err("Conflict", arg_def.name, arg_def.conflicts_with[c])>>
             ELSE <<>>
    ELSE <<>>

\* The checks of one active spec without the loop over conflicts_with.
RelationErrorNoConflicts(arg_def, seen) ==
    IF Contains(seen, arg_def.name)
    THEN LET d == FirstOf({n \in 1..Len(arg_def.depends_on) :
                               ~Contains(seen, arg_def.depends_on[n])})
         IN  IF d # 0
             THEN <<Err("UnsatisfiedDependency", arg_def.name, arg_def.depends_on[d])>>
             ELSE <<>>
    ELSE <<>>

\* The checks of one active spec with the two loops in the other order.
RelationErrorConflictsFirst(arg_def, seen) ==
    IF Contains(seen, arg_def.name)
    THEN LET d == FirstOf({n \in 1..Len(arg_def.depends_on) :
                               ~Contains(seen, arg_def.depends_on[n])})
             c == FirstOf({n \in 1..Len(arg_def.conflicts_with) :
                               Contains(seen, arg_def.conflicts_with[n])})
         IN  IF c # 0
             THEN <<Err("Conflict", arg_def.name, arg_def.conflicts_with[c])>>
             ELSE IF d # 0
                  THEN <<Err("UnsatisfiedDependency", arg_def.name, arg_def.depends_on[d])>>
                  ELSE <<>>
    ELSE <<>>

\* lines 711-731: the checks of one active spec
RelationError(arg_def, seen) ==
    IF Contains(seen, arg_def.name)
    THEN LET d == FirstOf({n \in 1..Len(arg_def.depends_on) :
                               ~Contains(seen, arg_def.depends_on[n])})
             c == FirstOf({n \in 1..Len(arg_def.conflicts_with) :
                               Contains(seen, arg_def.conflicts_with[n])})
         IN  IF d # 0
             THEN <<Err("UnsatisfiedDependency", arg_def.name, arg_def.depends_on[d])>>
             ELSE IF c # 0
                  THEN <<Err("Conflict", arg_def.name, arg_def.conflicts_with[c])>>
                  ELSE <<>>
    ELSE <<>>

\* lines 710-732: the first error of the loop over active_args, or None
CheckRelationsOf(active, seen) ==
    LET j == FirstOf({m \in 1..Len(active) : RelationError(active[m], seen) # <<>>})
    IN  IF j = 0 THEN <<>> ELSE RelationError(active[j], seen)

\* lines 710-732
CheckRelations ==
    /\ pc = "relations"
    /\ LET err == CheckRelationsOf(active_args, seen_args)
       IN  IF err # <<>>
           THEN result' = err[1] /\ pc' = "done"
           ELSE pc' = "required" /\ UNCHANGED result
    /\ UNCHANGED <<cmd, args, i, values, flags, positional, variadic, seen_args,
                   positional_raw, active_args>>

\* lines 734-750: the loop over active_args, from its k-th element
RECURSIVE ApplyRequired(_, _, _, _)
ApplyRequired(active, seen, k, st) ==
    IF k > Len(active) \/ st.err # <<>> THEN st
    ELSE LET arg_def == active[k] IN
         IF arg_def.required /\ ~Contains(seen, arg_def.name)
         THEN IF arg_def.default_value # <<>>
              THEN ApplyRequired(active, seen, k + 1,
                       CASE arg_def.arg_type = "Option" ->
                                [st EXCEPT !.values = MapInsert(@, arg_def.name,
                                                                arg_def.default_value[1])]
                         [] arg_def.arg_type = "Flag" ->
                                [st EXCEPT !.flags = MapInsert(@, arg_def.name, TRUE)]
                         [] OTHER -> st)
              ELSE [st EXCEPT !.err = <<Err("MissingRequiredArgument", arg_def.name, <<>>)>>]
         ELSE ApplyRequired(active, seen, k + 1, st)

\* lines 734-752
CheckRequired ==
    /\ pc = "required"
    /\ LET st == ApplyRequired(active_args, seen_args, 1,
                               [values |-> values, flags |-> flags, err |-> <<>>])
       IN  IF st.err # <<>>
           THEN /\ result' = st.err[1]
                /\ UNCHANGED <<values, flags>>
           ELSE /\ result' = Ok
                /\ values' = st.values
                /\ flags' = st.flags
    /\ pc' = "done"
    /\ UNCHANGED <<cmd, args, i, positional, variadic, seen_args, positional_raw,
                   active_args>>

Next ==
    \/ PreScanTokens
    \/ ResolveActiveArgs
    \/ ScanToken
    \/ AssignPositionals
    \/ AssignVariadic
    \/ CheckRelations
    \/ CheckRequired

Spec == Init /\ [][Next]_vars

(***************************************************************************)
(* ParsedArgs                                                              *)
(***************************************************************************)
\* ParsedArgs::get: Some(value) or None
Get(name) == IF name \in DOMAIN values THEN <<values[name]>> ELSE <<>>

\* ParsedArgs::flag
Flag(name) == IF name \in DOMAIN flags THEN flags[name] ELSE FALSE

Done == pc = "done"
ReturnedOk == pc = "done" /\ result.kind = "Ok"

(***************************************************************************)
(* Command::parse as a function of the command and the token list          *)
(***************************************************************************)

\* lines 595-656: the `while i < args.len()` loop, to its end or its first error
RECURSIVE ScanAll(_, _, _)
ScanAll(st, tokens, active) ==
    IF st.err # <<>> \/ st.i >= Len(tokens) THEN st
    ELSE ScanAll(ScanStep(st, tokens, active), tokens, active)

\* What a call returns: Err(..), or Ok with the four fields of ParsedArgs
Returned(res, v, f, p, t) ==
    [result |-> res, values |-> v, flags |-> f, positional |-> p, variadic |-> t]

Failed(err) == Returned(err, EmptyMap, EmptyMap, <<>>, <<>>)

\* lines 572-753
Parse(c, tokens) ==
    LET active  == GetActiveArgs(CommandArgs(c), PreScan(tokens, 0))
        scanned == ScanAll([i |-> 0, values |-> EmptyMap, flags |-> EmptyMap,
                            seen_args |-> <<>>, positional_raw |-> <<>>, err |-> <<>>],
                           tokens, active)
        placed  == AssignPositional(PositionalSorted(active), scanned.positional_raw, 1,
                       [positional |-> <<>>, values |-> scanned.values,
                        seen_args |-> scanned.seen_args, err |-> <<>>])
        variadic_def == VariadicDef(active)
        tail    == IF variadic_def # <<>>
                   THEN VariadicTail(scanned.positional_raw, Len(PositionalSorted(active)))
                   ELSE <<>>
        seen    == IF tail # <<>> THEN Append(placed.seen_args, variadic_def[1].name)
                   ELSE placed.seen_args
        related == CheckRelationsOf(active, seen)
        filled  == ApplyRequired(active, seen, 1,
                       [values |-> placed.values, flags |-> scanned.flags, err |-> <<>>])
    IN  IF scanned.err # <<>> THEN Failed(scanned.err[1])
        ELSE IF placed.err # <<>> THEN Failed(placed.err[1])
        ELSE IF related # <<>> THEN Failed(related[1])
        ELSE IF filled.err # <<>> THEN Failed(filled.err[1])
        ELSE Returned(Ok, filled.values, filled.flags, placed.positional, tail)

(***************************************************************************)
(* Properties                                                              *)
(***************************************************************************)
Base == CommandArgs(cmd)

\* parse got as far as the checks of lines 710-750, so seen_args is complete
ValidationReached ==
    /\ pc = "done"
    /\ result.kind \in {"Ok", "UnsatisfiedDependency", "Conflict", "MissingRequiredArgument"}

\* the token list spells the option or flag a: `--long`, `--long=...` or `-c`
Spelled(a) ==
    \E n \in 1..Len(args) :
        \/ a.long # <<>> /\ args[n] = DashDash \o a.long[1]
        \/ a.long # <<>> /\ StartsWith(args[n], DashDash \o a.long[1] \o Eq)
        \/ a.short # <<>> /\ args[n] = Dash \o a.short

\* C1: an Option with a default value D that the token list gives no value for
\* has values[name] = D in the result.
C1_DefaultWhenNotSupplied ==
    ReturnedOk =>
        \A j \in 1..Len(active_args) :
            LET a == active_args[j] IN
            (a.arg_type = "Option" /\ a.default_value # <<>> /\ ~Spelled(a))
                => Get(a.name) = a.default_value

\* The tokens that do not start with '-', in order.
NonDashTokens == SelectSeq(args, LAMBDA t : ~(Len(t) >= 1 /\ t[1] = "-"))

\* The chains of the base specs, as (spec, chain) places.
ChainPlaces ==
    UNION {{<<j, k>> : k \in 1..Len(Base[j].children)} : j \in 1..Len(Base)}

ChainAt(p) == Base[p[1]].children[p[2]]

\* The chain at p has a base Positional parent whose token exists and is the trigger.
Triggered(p) ==
    /\ Base[p[1]].arg_type = "Positional"
    /\ Base[p[1]].index + 1 <= Len(NonDashTokens)
    /\ NonDashTokens[Base[p[1]].index + 1] = ChainAt(p).when_value

TriggeredPlaces == {p \in ChainPlaces : Triggered(p)}

RECURSIVE NestedCount(_)
NestedCount(places) ==
    IF places = {} THEN 0
    ELSE LET p == CHOOSE p \in places : TRUE
         IN  Len(ChainAt(p).args) + NestedCount(places \ {p})

Before(q, p) == q[1] < p[1] \/ (q[1] = p[1] /\ q[2] < p[2])

SameButIndex(a, b) == [a EXCEPT !.index = 0] = [b EXCEPT !.index = 0]

C3_NestedIndex ==
    /\ ReturnedOk =>
           \A p \in TriggeredPlaces :
               \A n \in 1..Len(ChainAt(p).args) :
                   LET child == ChainAt(p).args[n]
                       at == Base[p[1]].index + 1 + child.index
                   IN  (child.arg_type = "Positional" /\ at < Len(positional_raw))
                           => Get(child.name) = <<positional_raw[at + 1]>>
    /\ (/\ pc = "done"
        /\ cmd = "config"
        /\ Len(args) = 2
        /\ args[1] = S_get
        /\ ~StartsWith(args[2], Dash))
           => /\ result = Ok
              /\ positional = args
              /\ Get(S_action) = <<S_get>>
              /\ Get(S_key) = <<args[2]>>

\* C3 witness: ["get", "name"] is parsed.
C3_Witness ==
    /\ pc = "done"
    /\ cmd = "config"
    /\ args = <<S_get, S_name>>
    /\ positional = <<S_get, S_name>>
    /\ Get(S_key) = <<S_name>>

\* C4: `--n=` or `--n=v` on a Flag with long alias n is rejected or makes
\* flag(name) true.
C4_InlineFlag ==
    pc = "done" =>
        \A j \in 1..Len(active_args) :
            LET a == active_args[j] IN
            (/\ a.arg_type = "Flag"
             /\ a.long # <<>>
             /\ \E n \in 1..Len(args) : StartsWith(args[n], DashDash \o a.long[1] \o Eq))
                => (result.kind # "Ok" \/ Flag(a.name))

\* The token spells a two-token assignment (`--long` or `-c`) of the Option a.
TwoTokenForm(a, t) ==
    /\ a.arg_type = "Option"
    /\ \/ a.long # <<>> /\ t = DashDash \o a.long[1]
       \/ a.short # <<>> /\ t = Dash \o a.short

\* The token is the inline assignment `--long=value` of the Option a.
InlineForm(a, t) ==
    /\ a.arg_type = "Option"
    /\ a.long # <<>>
    /\ StartsWith(t, DashDash \o a.long[1] \o Eq)

InlineValue(a, t) == SubSeq(t, Len(a.long[1]) + 4, Len(t))

\* The value of the last assignment of the Option a among the tokens from the
\* n-th on, by the grammar `--name value`, `--name=value`, `-c value`; cur
\* when there is none.
RECURSIVE LastAssigned(_, _, _)
LastAssigned(a, n, cur) ==
    IF n > Len(args) THEN cur
    ELSE IF \E m \in 1..Len(active_args) : TwoTokenForm(active_args[m], args[n])
         THEN IF n + 1 > Len(args) THEN cur
              ELSE LastAssigned(a, n + 2,
                                IF TwoTokenForm(a, args[n]) THEN <<args[n + 1]>> ELSE cur)
         ELSE LastAssigned(a, n + 1,
                           IF InlineForm(a, args[n]) THEN <<InlineValue(a, args[n])>> ELSE cur)

\* C5: an Option assigned several times, in any mix of the inline, two-token long
\* and short forms, has the value of its last assignment in token order.
C5_LastAssignmentWins ==
    ReturnedOk =>
        \A j \in 1..Len(active_args) :
            LET a == active_args[j] IN
            (a.arg_type = "Option" /\ LastAssigned(a, 1, <<>>) # <<>>)
                => Get(a.name) = LastAssigned(a, 1, <<>>)

\* C5 witness: ["--output=a", "-o", "b"] gives "b".
C5_Witness ==
    /\ pc = "done"
    /\ result = Ok
    /\ cmd = "output"
    /\ args = <<DashDash \o S_output \o Eq \o S_a, Dash \o <<"o">>, S_b>>
    /\ Get(S_output) = <<S_b>>

Supplied(name) == Contains(seen_args, name)

\* The active spec at j was supplied and its dependency dep was not.
MissingDependency(j, dep) ==
    /\ Supplied(active_args[j].name)
    /\ Contains(active_args[j].depends_on, dep)
    /\ ~Supplied(dep)

\* The active spec at j was supplied and so was other, which it conflicts with.
PresentConflict(j, other) ==
    /\ Supplied(active_args[j].name)
    /\ Contains(active_args[j].conflicts_with, other)
    /\ Supplied(other)

\* The active spec at j fails one of its own checks.
Offends(j) ==
    \/ \E n \in 1..Len(active_args[j].depends_on) :
           MissingDependency(j, active_args[j].depends_on[n])
    \/ \E n \in 1..Len(active_args[j].conflicts_with) :
           PresentConflict(j, active_args[j].conflicts_with[n])

\* C6 as stated: a supplied spec with a dependency that was not supplied makes
\* parse return the UnsatisfiedDependency error naming the spec and the dependency.
C6_AlwaysDependencyError ==
    ValidationReached =>
        \A j \in 1..Len(active_args) :
            \A n \in 1..Len(active_args[j].depends_on) :
                MissingDependency(j, active_args[j].depends_on[n])
                    => result = Err("UnsatisfiedDependency", active_args[j].name,
                                    active_args[j].depends_on[n])

\* C6 amended: a supplied spec with a dependency that was not supplied makes
\* parse fail, never return Ok; once the scan and the positionals raised no
\* error, the error is UnsatisfiedDependency naming the spec and a missing
\* dependency of it, unless a supplied spec earlier in the active set fails its
\* own dependency or conflict check, whose error is returned instead.
C6_DependencyErrorUnlessEarlier ==
    pc = "done" =>
        \A j \in 1..Len(active_args) :
            \A n \in 1..Len(active_args[j].depends_on) :
                MissingDependency(j, active_args[j].depends_on[n])
                    => /\ result.kind # "Ok"
                       /\ ValidationReached =>
                            \/ /\ result.kind = "UnsatisfiedDependency"
                               /\ result.a = active_args[j].name
                               /\ MissingDependency(j, result.b)
                            \/ \E m \in 1..(j - 1) :
                                   /\ Offends(m)
                                   /\ result.kind \in {"UnsatisfiedDependency", "Conflict"}
                                   /\ result.a = active_args[m].name

\* C6 witness: `--dry` alone, which depends on `plan`.
C6_Witness ==
    /\ pc = "done"
    /\ cmd = "depslast"
    /\ args = <<DashDash \o S_dry>>
    /\ result = Err("UnsatisfiedDependency", S_dry, S_plan)

\* C7: a supplied spec one of whose conflicts_with names was supplied too never
\* gives Ok, whatever the order of the two in the token list and whichever of
\* the two declares the conflict.
C7_ConflictNeverOk ==
    pc = "done" =>
        \A j \in 1..Len(active_args) :
            \A n \in 1..Len(active_args[j].conflicts_with) :
                PresentConflict(j, active_args[j].conflicts_with[n]) => result.kind # "Ok"

\* C7 witness: the conflict is declared by the later spec and found there.
C7_Witness ==
    /\ pc = "done"
    /\ cmd = "depslast"
    /\ args = <<DashDash \o S_plan \o Eq \o S_p, DashDash \o S_dry, DashDash \o S_force>>
    /\ result = Err("Conflict", S_dry, S_force)

\* The active spec at j was supplied, misses a dependency and meets a conflict.
DependencyAndConflict(j) ==
    /\ \E n \in 1..Len(active_args[j].depends_on) :
           MissingDependency(j, active_args[j].depends_on[n])
    /\ \E n \in 1..Len(active_args[j].conflicts_with) :
           PresentConflict(j, active_args[j].conflicts_with[n])

\* C8 as stated: when a supplied argument has an unsatisfied dependency and a
\* present conflict, the error is UnsatisfiedDependency, not Conflict, whatever
\* the order of the specs and the conflicts the other specs declare.
C8_AlwaysDependencyFirst ==
    ValidationReached =>
        \A j \in 1..Len(active_args) :
            DependencyAndConflict(j) => result.kind = "UnsatisfiedDependency"

\* C8 amended: when a supplied argument has an unsatisfied dependency and a
\* present conflict, parse never returns that argument's own Conflict error; it
\* returns the argument's UnsatisfiedDependency error unless a supplied spec
\* earlier in the active set fails its own dependency or conflict check first.
C8_DependencyBeforeOwnConflict ==
    ValidationReached =>
        \A j \in 1..Len(active_args) :
            DependencyAndConflict(j)
                => /\ ~(result.kind = "Conflict" /\ result.a = active_args[j].name)
                   /\ (\A m \in 1..(j - 1) : ~Offends(m))
                          => /\ result.kind = "UnsatisfiedDependency"
                             /\ result.a = active_args[j].name
                             /\ MissingDependency(j, result.b)

\* C8 witness: `dry` misses `plan` and conflicts with `force`, which precedes it
\* in the active set and declares nothing.
C8_Witness ==
    /\ pc = "done"
    /\ cmd = "depslast"
    /\ args = <<DashDash \o S_force, DashDash \o S_dry>>
    /\ DependencyAndConflict(2)
    /\ result = Err("UnsatisfiedDependency", S_dry, S_plan)

\* C9: in an Ok result the value stored for an active spec with a non-empty
\* possible_values list is one of those values.
C9_ValuesAreAllowed ==
    ReturnedOk =>
        \A j \in 1..Len(active_args) :
            LET a == active_args[j] IN
            (a.possible_values # <<>> /\ a.name \in DOMAIN values)
                => Contains(a.possible_values, values[a.name])

\* C10: in an Ok result every required active spec was supplied or has a
\* default, every required Option or Positional has an entry in values and every
\* required Flag is true in flags.
C10_RequiredArePresent ==
    ReturnedOk =>
        \A j \in 1..Len(active_args) :
            LET a == active_args[j] IN
            a.required
                => /\ Supplied(a.name) \/ a.default_value # <<>>
                   /\ a.arg_type \in {"Option", "Positional"} => a.name \in DOMAIN values
                   /\ a.arg_type = "Flag" => Flag(a.name)

\* The active spec at j got no token and has its default as its value.
FilledFromDefault(j) ==
    /\ ~Supplied(active_args[j].name)
    /\ active_args[j].default_value # <<>>
    /\ active_args[j].name \in DOMAIN values
    /\ values[active_args[j].name] = active_args[j].default_value[1]

\* C11: a spec that was not supplied and was filled from its default counts as
\* seen by the dependency check, so parse never returns UnsatisfiedDependency
\* naming it as the missing dependency.
C11_DefaultedDependencySeen ==
    pc = "done" =>
        \A j \in 1..Len(active_args) :
            FilledFromDefault(j)
                => ~(result.kind = "UnsatisfiedDependency" /\ result.b = active_args[j].name)

\* C12: the chain `when("advanced", [config])` on the Option `mode` is active
\* when mode has the value advanced, so `--mode advanced --config f` is accepted
\* and gives config the value f.
C12_OptionParentChain ==
    (pc = "done" /\ cmd = "mode"
     /\ args = <<DashDash \o S_mode, S_advanced, DashDash \o S_config, S_f>>)
        => /\ result = Ok
           /\ Get(S_mode) = <<S_advanced>>
           /\ Get(S_config) = <<S_f>>

\* The variadic step of parse is over.
VariadicAssigned == pc \in {"relations", "required"} \/ ValidationReached

\* The number of Positional specs in the active set.
PositionalCount == Cardinality({j \in 1..Len(active_args) :
                                   active_args[j].arg_type = "Positional"})

\* The positional-buffer entries beyond the count of Positional specs, in order.
Excess ==
    IF Len(positional_raw) > PositionalCount
    THEN [k \in 1..(Len(positional_raw) - PositionalCount) |->
              positional_raw[PositionalCount + k]]
    ELSE <<>>

HasVariadic == \E j \in 1..Len(active_args) : active_args[j].arg_type = "Variadic"

\* No relation check and no required check of the active set fails.
ChecksPass ==
    \A j \in 1..Len(active_args) :
        /\ ~Offends(j)
        /\ active_args[j].required
               => Supplied(active_args[j].name) \/ active_args[j].default_value # <<>>

\* C13: with a Variadic spec active the variadic sequence is the positional
\* buffer beyond the count of active Positional specs, in order; with none
\* active it is empty, the entries are dropped, and they raise no error: parse
\* returns Ok when the relation and required checks pass.
C13_ExcessToVariadic ==
    VariadicAssigned =>
        /\ HasVariadic => variadic = Excess
        /\ ~HasVariadic => variadic = <<>>
        /\ (pc = "done" /\ ~HasVariadic /\ Excess # <<>> /\ ChecksPass) => result = Ok

\* `a b p a` on src, dst and rest: the two entries beyond the two Positional
\* specs are the variadic sequence.
C13_Witness ==
    /\ ReturnedOk
    /\ cmd = "copy"
    /\ args = <<S_a, S_b, S_p, S_a>>
    /\ positional = <<S_a, S_b>>
    /\ variadic = <<S_p, S_a>>

\* The token is `--long` or `-c` of the spec a, with no inline value.
SpelledBy(a, t) ==
    \/ a.long # <<>> /\ t = DashDash \o a.long[1]
    \/ a.short # <<>> /\ t = Dash \o a.short

\* The place in the active set of the first spec the token at n spells, or 0.
MatchedAt(n) == FirstOf({m \in 1..Len(active_args) : SpelledBy(active_args[m], args[n])})

\* The main scan is at a token that spells an Option without an inline value.
AtOptionToken ==
    /\ pc = "scan"
    /\ i < Len(args)
    /\ MatchedAt(i + 1) # 0
    /\ active_args[MatchedAt(i + 1)].arg_type = "Option"

\* C15: a scan step at `--long` or `-c` of an Option stores the next token,
\* whatever it is, as the Option's value and moves the cursor past it, leaving
\* the positional buffer and the flags alone; when there is no next token the
\* step ends parse with MissingOptionValue.
C15_OptionTakesNextToken ==
    [][AtOptionToken =>
          LET name == active_args[MatchedAt(i + 1)].name IN
          IF i + 2 <= Len(args)
          THEN /\ i' = i + 2
               /\ DOMAIN values' = DOMAIN values \cup {name}
               /\ values'[name] = args[i + 2]
               /\ \A k \in DOMAIN values \ {name} : values'[k] = values[k]
               /\ seen_args' = Append(seen_args, name)
               /\ positional_raw' = positional_raw
               /\ flags' = flags
               /\ pc' = "scan"
               /\ result' = Running
          ELSE /\ pc' = "done"
               /\ result'.kind = "MissingOptionValue"
               /\ result'.a = args[i + 1]
               /\ values' = values]_vars

\* `--output --verbose`: the token after the Option is its value and sets no flag.
C15_Witness ==
    /\ ReturnedOk
    /\ cmd = "output"
    /\ args = <<DashDash \o S_output, DashDash \o S_verbose>>
    /\ Get(S_output) = <<DashDash \o S_verbose>>
    /\ ~Flag(S_verbose)
    /\ positional_raw = <<>>

\* The place of parse in its sequence of phases, counted from the end.
Rank ==
    CASE pc = "prescan"   -> 6
      [] pc = "resolve"   -> 5
      [] pc = "scan"      -> 4
      [] pc = "variadic"  -> 3
      [] pc = "relations" -> 2
      [] pc = "required"  -> 1
      [] OTHER            -> 0

\* What is left of parse: the phases to come and the tokens not yet scanned.
Measure == Rank * (Len(args) + 1) + (Len(args) - i)

\* The condition under which one of the steps of parse can be taken: the
\* disjunction of the guards of the steps, each of which is total in its guard.
StepGuard ==
    \/ pc = "prescan"
    \/ pc = "resolve"
    \/ pc = "scan" /\ i < Len(args)
    \/ pc = "scan" /\ i >= Len(args)
    \/ pc = "variadic"
    \/ pc = "relations"
    \/ pc = "required"

\* C16: parse ends with Ok or an error: every step lowers a measure that is a
\* natural number, and parse has a next step until it has returned. The scan
\* cursor never passes the end of the token list, and every scan iteration that
\* does not end parse moves it forward, by one token or by the two tokens of an
\* Option and its value, so no token is scanned twice and there are at most
\* Len(args) iterations.
C16_ParseTerminates ==
    /\ [](i <= Len(args) /\ Measure \in Nat)
    /\ [](IF pc = "done" THEN result # Running ELSE StepGuard /\ result = Running)
    /\ [][Measure' < Measure]_vars
    /\ [][(pc = "scan" /\ pc' = "scan")
              => /\ i' > i
                 /\ i' <= Len(args)
                 /\ i' = (IF AtOptionToken THEN i + 2 ELSE i + 1)]_vars

\* Four tokens scanned in three iterations, then an Ok result.
C16_Witness ==
    /\ ReturnedOk
    /\ cmd = "output"
    /\ args = <<Dash \o <<"v">>, DashDash \o S_output, S_b, S_b>>
    /\ i = 4
    /\ positional_raw = <<S_b>>

\* The nested specs of the chain at p are in the active set, after the base list.
ChainNested(p) ==
    \A n \in 1..Len(ChainAt(p).args) :
        \E j \in (Len(Base) + 1)..Len(active_args) :
            SameButIndex(active_args[j], ChainAt(p).args[n])

\* No other chain of the command nests a spec that the chain at p nests.
OwnNested(p) ==
    \A q \in ChainPlaces \ {p} :
        \A n \in 1..Len(ChainAt(p).args) : \A m \in 1..Len(ChainAt(q).args) :
            ~SameButIndex(ChainAt(p).args[n], ChainAt(q).args[m])

\* C17: in an Ok result the nested specs of a chain on a Positional parent are
\* in the active set exactly when the parent's parsed value is the trigger.
C17_ActivationAgreesWithValue ==
    ReturnedOk =>
        \A p \in ChainPlaces :
            (Base[p[1]].arg_type = "Positional" /\ OwnNested(p))
                => (ChainNested(p) <=> Get(Base[p[1]].name) = <<ChainAt(p).when_value>>)

\* What the call in progress has returned.
Outcome ==
    IF result.kind = "Ok" THEN Returned(Ok, values, flags, positional, variadic)
    ELSE Failed(result)

\* Equal results, or an error on both sides.
SameOutcome(x, y) ==
    IF x.result.kind = "Ok" THEN x = y ELSE y.result.kind # "Ok"

\* The positions of the token list that the main scan reads as a token of its
\* own, not as the value of the Option before it, from position k on.
RECURSIVE ScanPositions(_)
ScanPositions(k) ==
    IF k > Len(args) THEN {}
    ELSE {k} \cup ScanPositions(IF MatchedAt(k) # 0
                                      /\ active_args[MatchedAt(k)].arg_type = "Option"
                                   THEN k + 2 ELSE k + 1)

\* The tokens n and n + 1 are `--name value` of an Option with a long alias.
LongPairAt(n) ==
    /\ n \in ScanPositions(1)
    /\ n + 1 <= Len(args)
    /\ MatchedAt(n) # 0
    /\ active_args[MatchedAt(n)].arg_type = "Option"
    /\ active_args[MatchedAt(n)].long # <<>>
    /\ args[n] = DashDash \o active_args[MatchedAt(n)].long[1]

\* The token list with `--name value` at n replaced by `--name=value`.
WithInline(n) ==
    SubSeq(args, 1, n - 1) \o <<args[n] \o Eq \o args[n + 1]>>
        \o SubSeq(args, n + 2, Len(args))

\* The token list with `--name` at n replaced by `-c`.
WithShort(n) ==
    [args EXCEPT ![n] = Dash \o active_args[MatchedAt(n)].short]

\* C18: replacing `--name value` of an Option by `--name=value`, or by
\* `-c value` when the Option has the short alias c, gives the same outcome:
\* equal values, flags, positional and variadic, or an error both times.
C18_SpellingsInterchangeable ==
    pc = "done" =>
        \A n \in 1..Len(args) :
            LongPairAt(n)
                => /\ SameOutcome(Outcome, Parse(cmd, WithInline(n)))
                   /\ active_args[MatchedAt(n)].short # <<>>
                          => SameOutcome(Outcome, Parse(cmd, WithShort(n)))

\* The positional-buffer positions whose tokens the result holds, in the order
\* of the result: those of the Positional specs that found a token, by index,
\* then those of the variadic sequence, which is the end of the buffer.
DeliveredPositions ==
    LET found == SelectSeq(PositionalSorted(active_args),
                           LAMBDA a : a.index < Len(positional_raw))
    IN  [k \in 1..Len(found) |-> found[k].index + 1]
            \o [k \in 1..Len(variadic) |-> Len(positional_raw) - Len(variadic) + k]

\* C19: in an Ok result the tokens taken from the positional buffer, first for
\* the Positional specs and then for the variadic sequence, come from strictly
\* increasing buffer positions: none is delivered twice and their order is the
\* buffer's.
C19_DeliveredOnce ==
    ReturnedOk =>
        \A k \in 1..(Len(DeliveredPositions) - 1) :
            DeliveredPositions[k] < DeliveredPositions[k + 1]

====
